---- MODULE Spec2Model ----
(***************************************************************************)
(* P2PoolManager (src/p2pool/P2PoolManager.cpp): download of the p2pool    *)
(* release archive, launch of the detached daemon with assembled           *)
(* arguments, forced exit, as a state machine.                             *)
(*                                                                         *)
(* A QString is modelled as a TLA+ string.  The caller's flags string is   *)
(* given as the sequence of its pieces, each piece being one space or a    *)
(* run of non-space characters; the string itself is the concatenation.    *)
(***************************************************************************)
EXTENDS Naturals, Sequences, FiniteSets, TLC

\* ------------------------------------------------------------------ bounds
NumThreads == 2
MaxFlagLen == 3
MaxDaemons == 2
NumTasks == 2
MaxFields == 2

Threads == 1..NumThreads
Tasks == 1..NumTasks

\* ------------------------------------------------------- paths and strings
\* m_p2poolPath and m_p2pool as the constructor sets them (Q_OS_UNIX branch).
m_p2poolPath == "/app"
m_p2pool == m_p2poolPath \o "/p2pool"

\* dirName of start() and of exit(): m_p2poolPath + "/stats/".
dirName == m_p2poolPath \o "/stats/"

Space == " "
FlagWords == {"--local-api", "--data-api", "--start-mining", "--wallet", "/custom"}
FlagPieces == FlagWords \cup {Space}

\* Every flags string of at most MaxFlagLen pieces.
FlagStrings == UNION {[1..n -> FlagPieces] : n \in 0..MaxFlagLen}

\* QString::split(" "): the parts between separators, empty parts kept, so
\* that the empty string splits into one empty part.
RECURSIVE SplitAcc(_, _, _)
SplitAcc(s, cur, acc) ==
    IF s = <<>> THEN Append(acc, cur)
    ELSE IF Head(s) = Space THEN SplitAcc(Tail(s), "", Append(acc, cur))
    ELSE SplitAcc(Tail(s), cur \o Head(s), acc)

split(flags) == SplitAcc(flags, "", <<>>)

\* QStringList::contains.
contains(list, str) == \E i \in 1..Len(list) : list[i] = str

\* The foreach of start(): every non-empty part of flags, in order.
isEmpty(str) == str = ""
FlagTokens(flags) == SelectSeq(split(flags), LAMBDA str : ~isEmpty(str))

\* if (!arguments.contains("--local-api")) arguments << "--local-api".
AddLocalApi(a) ==
    IF ~contains(a, "--local-api") THEN Append(a, "--local-api") ELSE a

\* NeedsDataApi testing for another flag name.
NeedsDataApi_Typo(a) == ~contains(a, "--data-dir")

\* The test that guards the stats directory block of start().
NeedsDataApi(a) == ~contains(a, "--data-api")

\* arguments << "--data-api" << dirName, the last statement of that block.
AddDataApi(a) == a \o <<"--data-api", dirName>>

\* if (!arguments.contains("--start-mining")) arguments << "--start-mining" << threads.
AddStartMining(a, threads) ==
    IF ~contains(a, "--start-mining") THEN a \o <<"--start-mining", threads>> ELSE a

\* if (chain == "mini") arguments << "--mini".
AddMini(a, chain) ==
    IF chain = "mini" THEN Append(a, "--mini") ELSE a

\* if (!arguments.contains("--wallet")) arguments << "--wallet" << address.
AddWallet(a, address) ==
    IF ~contains(a, "--wallet") THEN a \o <<"--wallet", address>> ELSE a

\* The statements of start() between the stats directory block and the lock.
AddRest(a, inp) ==
    AddWallet(AddMini(AddStartMining(a, inp.threads), inp.chain), inp.address)

\* The text of the statistics file, as the pieces a reader meets: the lexical
\* tokens of JSON, and Space for a run of whitespace between them.
hashrateKey == "\"current_hashrate\""
otherKey == "\"shares_found\""
JsonKeys == {hashrateKey, otherKey}
JsonNumbers == {"0", "1234"}

\* QString::toInt of a number token.
NumberValue(n) == IF n = "1234" THEN 1234 ELSE 0

CompactStats == <<"{", hashrateKey, ":", "1234", "}">>
SpacedStats == <<"{", hashrateKey, ":", Space, "1234", "}">>
IndentedStats == <<Space, "{", hashrateKey, ":", "1234", "}">>
OtherStats == <<"{", otherKey, ":", "1234", "}">>
StatsTexts == {CompactStats, SpacedStats, IndentedStats, OtherStats}

\* QTextStream::operator>>(QByteArray &): skips leading whitespace, then reads
\* up to the next whitespace or the end of the stream.
RECURSIVE SkipSpace(_)
SkipSpace(text) ==
    IF text # <<>> /\ Head(text) = Space THEN SkipSpace(Tail(text)) ELSE text

RECURSIVE TakeWord(_)
TakeWord(text) ==
    IF text = <<>> \/ Head(text) = Space THEN <<>>
    ELSE <<Head(text)>> \o TakeWord(Tail(text))

ReadWord(text) == TakeWord(SkipSpace(text))

\* QJsonDocument::fromJson(data).object(): whitespace between tokens is
\* skipped; a text that is not one JSON object gives the empty object.
Tokens(text) == SelectSeq(text, LAMBDA p : p # Space)
EmptyObject == [members |-> {}]

fromJson(text) ==
    LET toks == Tokens(text) IN
    IF /\ Len(toks) = 5
       /\ toks[1] = "{" /\ toks[3] = ":" /\ toks[5] = "}"
       /\ toks[2] \in JsonKeys
       /\ toks[4] \in JsonNumbers
    THEN [members |-> {<<toks[2], toks[4]>>}]
    ELSE EmptyObject

\* jsonObj.value("current_hashrate").toInt(): 0 when there is no such member.
current_hashrate(obj) ==
    IF \E m \in obj.members : m[1] = hashrateKey
    THEN NumberValue((CHOOSE m \in obj.members : m[1] = hashrateKey)[2])
    ELSE 0

\* ------------------------------------------------------------------- state
VARIABLES
    started,        \* the member flag `started`
    m_p2poold,      \* the QProcess handle: NoProcess or its program parameters
    m_p2poolMutex,  \* 0 when free, else the thread that holds it
    statsDir,       \* <installDir>/stats/: "absent", "empty" or "data"
    binary,         \* m_p2pool on disk: "absent" or "file"
    daemons,        \* live p2pool processes that this Manager launched
    pc,             \* per calling thread: its place in start(), exit() or getStatus()
    call,           \* per calling thread: the parameters of its start() call
    arguments,      \* per calling thread: the local QStringList of start()
    launched,       \* per calling thread: what startDetached() returned
    ret,            \* per calling thread: what its last call returned
    events,         \* per calling thread: the signals its last call emitted
    archive,        \* fileName on disk: "absent" or "file"
    dpc,            \* per download task: its place in the lambda of download()
    success,        \* per download task: the local `success`
    response,       \* per download task: the response `response` points to
    fields,         \* per download task: the part of `fields` the loop has yet to visit
    data,           \* per download task: the local `data`, the body received
    ops,            \* per download task: its requests and file operations, in order
    signals,        \* per download task: the signals it emitted, in order
    miner,          \* <installDir>/stats/local/miner: its text, <<>> when there is no file
    status,         \* per calling thread: the p2poolStatus signals of its last getStatus()
    life            \* the Manager: "alive", "stopping" or "destroyed"

procVars == <<started, m_p2poold, m_p2poolMutex, statsDir, daemons>>
callVars == <<pc, call, arguments, launched, ret, events>>
taskVars == <<dpc, success, response, fields, data, ops, signals>>
vars == <<started, m_p2poold, m_p2poolMutex, statsDir, binary, daemons,
          pc, call, arguments, launched, ret, events,
          archive, dpc, success, response, fields, data, ops, signals,
          miner, status, life>>

\* The null handle, the parameters of no call, and no value returned yet.
NoProcess == [program |-> "", arguments |-> <<>>, workingDirectory |-> ""]
NoCall == [flags |-> <<>>, address |-> "", chain |-> "", threads |-> ""]
NoRet == "none"
NoResponse == [m_response_code |-> 0]
NoData == "none"

\* The parameters start() is called with.
StartInputs(F) ==
    [flags : F, address : {"abc"}, chain : {"main", "mini"}, threads : {"4", "--wallet"}]

\* The flags of the concurrent and sequential specifications.
FewFlags == {<<>>, <<"--data-api", Space, "/custom">>}
FewInputs == [flags : FewFlags, address : {"abc"}, chain : {"mini"}, threads : {"4"}]

\* The constructor: started = false; the file system is as it is found, with
\* or without the stats directory, the statistics file and the archive that
\* an earlier run left behind.
Init ==
    /\ started = FALSE
    /\ m_p2poold = NoProcess
    /\ m_p2poolMutex = 0
    /\ statsDir \in {"absent", "empty", "data"}
    /\ miner \in IF statsDir = "data" THEN StatsTexts ELSE {<<>>}
    /\ binary \in {"absent", "file"}
    /\ daemons = 0
    /\ pc = [t \in Threads |-> "idle"]
    /\ call = [t \in Threads |-> NoCall]
    /\ arguments = [t \in Threads |-> <<>>]
    /\ launched = [t \in Threads |-> FALSE]
    /\ ret = [t \in Threads |-> NoRet]
    /\ events = [t \in Threads |-> <<>>]
    /\ archive \in {"absent", "file"}
    /\ dpc = [k \in Tasks |-> "idle"]
    /\ success = [k \in Tasks |-> FALSE]
    /\ response = [k \in Tasks |-> NoResponse]
    /\ fields = [k \in Tasks |-> <<>>]
    /\ data = [k \in Tasks |-> NoData]
    /\ ops = [k \in Tasks |-> <<>>]
    /\ signals = [k \in Tasks |-> <<>>]
    /\ status = [t \in Threads |-> <<>>]
    /\ life = "alive"

\* ----------------------------------------------------------------- start()
\* Entry of start(): the foreach over flags, the --local-api test and the
\* --data-api test.
EntryArguments(inp) == AddLocalApi(FlagTokens(inp.flags))
EntryPc(inp) == IF NeedsDataApi(EntryArguments(inp)) THEN "s_exists" ELSE "s_lock"

StartCall(t, inp) ==
    /\ pc[t] = "idle"
    /\ arguments' = [arguments EXCEPT ![t] = EntryArguments(inp)]
    /\ pc' = [pc EXCEPT ![t] = EntryPc(inp)]
    /\ call' = [call EXCEPT ![t] = inp]
    /\ launched' = [launched EXCEPT ![t] = FALSE]
    /\ ret' = [ret EXCEPT ![t] = NoRet]
    /\ events' = [events EXCEPT ![t] = <<>>]
    /\ status' = [status EXCEPT ![t] = <<>>]
    /\ UNCHANGED <<started, m_p2poold, m_p2poolMutex, statsDir, binary, daemons,
                   archive, taskVars, miner, life>>

\* if (dir.exists(dirName))
StatsExists(t) ==
    /\ pc[t] = "s_exists"
    /\ pc' = [pc EXCEPT ![t] = IF statsDir # "absent" THEN "s_remove" ELSE "s_mkdir"]
    /\ UNCHANGED <<started, m_p2poold, m_p2poolMutex, statsDir, binary, daemons,
                   call, arguments, launched, ret, events, archive, taskVars, miner, status, life>>

\* statsDir.removeRecursively()
StatsRemove(t) ==
    /\ pc[t] = "s_remove"
    /\ statsDir' = "absent"
    /\ miner' = <<>>
    /\ pc' = [pc EXCEPT ![t] = "s_mkdir"]
    /\ UNCHANGED <<started, m_p2poold, m_p2poolMutex, binary, daemons,
                   call, arguments, launched, ret, events, archive, taskVars, status, life>>

\* StatsMkdir with the mkdir call left out.
StatsMkdir_NoCreate(t) ==
    /\ pc[t] = "s_mkdir"
    /\ arguments' = [arguments EXCEPT ![t] = AddDataApi(arguments[t])]
    /\ pc' = [pc EXCEPT ![t] = "s_lock"]
    /\ UNCHANGED <<started, m_p2poold, m_p2poolMutex, statsDir, binary, daemons,
                   call, launched, ret, events, archive, taskVars, miner, status, life>>

\* dir.mkdir(dirName), which does nothing when the directory exists, and
\* arguments << "--data-api" << dirName.
StatsMkdir(t) ==
    /\ pc[t] = "s_mkdir"
    /\ statsDir' = IF statsDir = "absent" THEN "empty" ELSE statsDir
    /\ arguments' = [arguments EXCEPT ![t] = AddDataApi(arguments[t])]
    /\ pc' = [pc EXCEPT ![t] = "s_lock"]
    /\ UNCHANGED <<started, m_p2poold, m_p2poolMutex, binary, daemons,
                   call, launched, ret, events, archive, taskVars, miner, status, life>>

\* The rest of the argument assembly, then QMutexLocker locker(&m_p2poolMutex).
StartLock(t) ==
    /\ pc[t] = "s_lock"
    /\ m_p2poolMutex = 0
    /\ m_p2poolMutex' = t
    /\ arguments' = [arguments EXCEPT ![t] = AddRest(arguments[t], call[t])]
    /\ pc' = [pc EXCEPT ![t] = "s_reset"]
    /\ UNCHANGED <<started, m_p2poold, statsDir, binary, daemons,
                   call, launched, ret, events, archive, taskVars, miner, status, life>>

\* m_p2poold.reset(new QProcess()); setProgram, setArguments, setWorkingDirectory.
StartReset(t) ==
    /\ pc[t] = "s_reset"
    /\ m_p2poold' = [program |-> m_p2pool, arguments |-> arguments[t],
                     workingDirectory |-> m_p2poolPath]
    /\ pc' = [pc EXCEPT ![t] = "s_launch"]
    /\ UNCHANGED <<started, m_p2poolMutex, statsDir, binary, daemons,
                   call, arguments, launched, ret, events, archive, taskVars, miner, status, life>>

\* What m_p2poold->startDetached() can return: the launch succeeds only when
\* the program is a file on disk.  O is the set of outcomes a specification
\* lets the operating system choose from.
LaunchOutcomes == IF binary = "file" THEN {TRUE, FALSE} ELSE {FALSE}

\* m_p2poold->startDetached(): a new detached process on success.
StartDetached(t, O) ==
    /\ pc[t] = "s_launch"
    /\ \E ok \in LaunchOutcomes \cap O :
        /\ launched' = [launched EXCEPT ![t] = ok]
        /\ daemons' = IF ok THEN daemons + 1 ELSE daemons
    /\ pc' = [pc EXCEPT ![t] = "s_assign"]
    /\ UNCHANGED <<started, m_p2poold, m_p2poolMutex, statsDir, binary,
                   call, arguments, ret, events, archive, taskVars, miner, status, life>>

\* StartAssign setting started whatever startDetached() returned.
StartAssign_AlwaysTrue(t) ==
    /\ pc[t] = "s_assign"
    /\ started' = TRUE
    /\ pc' = [pc EXCEPT ![t] = "s_ret"]
    /\ UNCHANGED <<m_p2poold, m_p2poolMutex, statsDir, binary, daemons,
                   call, arguments, launched, ret, events, archive, taskVars, miner, status, life>>

\* started = <what startDetached() returned>
StartAssign(t) ==
    /\ pc[t] = "s_assign"
    /\ started' = launched[t]
    /\ pc' = [pc EXCEPT ![t] = "s_ret"]
    /\ UNCHANGED <<m_p2poold, m_p2poolMutex, statsDir, binary, daemons,
                   call, arguments, launched, ret, events, archive, taskVars, miner, status, life>>

\* if (!started) { emit p2poolStartFailure(); return false; } return true;
\* the locker unlocks as start() returns.
StartReturn(t) ==
    /\ pc[t] = "s_ret"
    /\ events' = [events EXCEPT ![t] =
                    IF ~started THEN Append(events[t], "p2poolStartFailure") ELSE events[t]]
    /\ ret' = [ret EXCEPT ![t] = IF started THEN "true" ELSE "false"]
    /\ m_p2poolMutex' = 0
    /\ call' = [call EXCEPT ![t] = NoCall]
    /\ arguments' = [arguments EXCEPT ![t] = <<>>]
    /\ pc' = [pc EXCEPT ![t] = "idle"]
    /\ UNCHANGED <<started, m_p2poold, statsDir, binary, daemons, launched, archive, taskVars, miner, status, life>>

StartStep(t, O) ==
    \/ StatsExists(t)
    \/ StatsRemove(t)
    \/ StatsMkdir(t)
    \/ StartLock(t)
    \/ StartReset(t)
    \/ StartDetached(t, O)
    \/ StartAssign(t)
    \/ StartReturn(t)

\* ------------------------------------------------------------------ exit()
\* exit() without its test of `started`.
ExitCall_NoTest(t) ==
    /\ pc[t] = "idle"
    /\ pc' = [pc EXCEPT ![t] = "e_kill"]
    /\ launched' = [launched EXCEPT ![t] = FALSE]
    /\ ret' = [ret EXCEPT ![t] = NoRet]
    /\ events' = [events EXCEPT ![t] = <<>>]
    /\ status' = [status EXCEPT ![t] = <<>>]
    /\ UNCHANGED <<started, m_p2poold, m_p2poolMutex, statsDir, binary, daemons,
                   call, arguments, archive, taskVars, miner, life>>

\* Entry of exit(): if (started); when it is false exit() returns at once.
ExitCall(t) ==
    /\ pc[t] = "idle"
    /\ pc' = [pc EXCEPT ![t] = IF started THEN "e_kill" ELSE "idle"]
    /\ launched' = [launched EXCEPT ![t] = FALSE]
    /\ ret' = [ret EXCEPT ![t] = IF started THEN NoRet ELSE "void"]
    /\ events' = [events EXCEPT ![t] = <<>>]
    /\ status' = [status EXCEPT ![t] = <<>>]
    /\ UNCHANGED <<started, m_p2poold, m_p2poolMutex, statsDir, binary, daemons,
                   call, arguments, archive, taskVars, miner, life>>

\* QProcess::execute("pkill", {"p2pool"}), its result ignored: pkill signals
\* every process of that name, or cannot be run; when execute() returns any
\* number of the daemons may still be alive.
ExitKill(t) ==
    /\ pc[t] = "e_kill"
    /\ \E n \in 0..daemons : daemons' = n
    /\ pc' = [pc EXCEPT ![t] = "e_clear"]
    /\ UNCHANGED <<started, m_p2poold, m_p2poolMutex, statsDir, binary,
                   call, arguments, launched, ret, events, archive, taskVars, miner, status, life>>

\* exit() without the assignment to `started`.
ExitClear_NoClear(t) ==
    /\ pc[t] = "e_clear"
    /\ pc' = [pc EXCEPT ![t] = "e_rmdir"]
    /\ UNCHANGED <<started, m_p2poold, m_p2poolMutex, statsDir, binary, daemons,
                   call, arguments, launched, ret, events, archive, taskVars,
                   miner, status, life>>

\* started = false
ExitClear(t) ==
    /\ pc[t] = "e_clear"
    /\ started' = FALSE
    /\ pc' = [pc EXCEPT ![t] = "e_rmdir"]
    /\ UNCHANGED <<m_p2poold, m_p2poolMutex, statsDir, binary, daemons,
                   call, arguments, launched, ret, events, archive, taskVars, miner, status, life>>

\* dir.removeRecursively() on the stats directory; exit() returns.
ExitRmdir(t) ==
    /\ pc[t] = "e_rmdir"
    /\ statsDir' = "absent"
    /\ miner' = <<>>
    /\ ret' = [ret EXCEPT ![t] = "void"]
    /\ pc' = [pc EXCEPT ![t] = "idle"]
    /\ UNCHANGED <<started, m_p2poold, m_p2poolMutex, binary, daemons,
                   call, arguments, launched, events, archive, taskVars, status, life>>

ExitStep(t) ==
    \/ ExitKill(t)
    \/ ExitClear(t)
    \/ ExitRmdir(t)

\* -------------------------------------------------------------- getStatus()
\* The signal p2poolStatus(running, hashrate).
p2poolStatus(running, hashrate) == [running |-> running, hashrate |-> hashrate]
EmitStatus(t, signal) == status' = [status EXCEPT ![t] = Append(status[t], signal)]

\* Entry of getStatus(): !QFileInfo(statsPath).isFile(), the left operand of
\* the test.
GetStatusCall(t) ==
    /\ pc[t] = "idle"
    /\ pc' = [pc EXCEPT ![t] = IF statsDir # "data" THEN "g_status" ELSE "g_started"]
    /\ launched' = [launched EXCEPT ![t] = FALSE]
    /\ ret' = [ret EXCEPT ![t] = NoRet]
    /\ events' = [events EXCEPT ![t] = <<>>]
    /\ status' = [status EXCEPT ![t] = <<>>]
    /\ UNCHANGED <<started, m_p2poold, m_p2poolMutex, statsDir, binary, daemons,
                   call, arguments, archive, taskVars, miner, life>>

\* || !started, the right operand, read when the file is there.
GetStarted(t) ==
    /\ pc[t] = "g_started"
    /\ pc' = [pc EXCEPT ![t] = IF ~started THEN "g_status" ELSE "g_read"]
    /\ UNCHANGED <<started, m_p2poold, m_p2poolMutex, statsDir, binary, daemons,
                   call, arguments, launched, ret, events, archive, taskVars,
                   miner, status, life>>

\* status = started; emit p2poolStatus(status, 0); return
GetStatusOff(t) ==
    /\ pc[t] = "g_status"
    /\ EmitStatus(t, p2poolStatus(started, 0))
    /\ ret' = [ret EXCEPT ![t] = "void"]
    /\ pc' = [pc EXCEPT ![t] = "idle"]
    /\ UNCHANGED <<started, m_p2poold, m_p2poolMutex, statsDir, binary, daemons,
                   call, arguments, launched, events, archive, taskVars, miner, life>>

\* What statsOut >> data leaves in data: one word of the file, or nothing
\* when the file cannot be opened.
ReadStats == IF statsDir = "data" THEN ReadWord(miner) ELSE <<>>

\* The last emit of getStatus() with `started` in place of `status`.
GetStatusRead_Reread(t) ==
    /\ pc[t] = "g_read"
    /\ EmitStatus(t, p2poolStatus(started, current_hashrate(fromJson(ReadStats))))
    /\ ret' = [ret EXCEPT ![t] = "void"]
    /\ pc' = [pc EXCEPT ![t] = "idle"]
    /\ UNCHANGED <<started, m_p2poold, m_p2poolMutex, statsDir, binary, daemons,
                   call, arguments, launched, events, archive, taskVars, miner, life>>

\* statsFile.open, statsOut >> data, fromJson, value("current_hashrate"),
\* emit p2poolStatus(status, hashrate) with status still true; return.
GetStatusRead(t) ==
    /\ pc[t] = "g_read"
    /\ EmitStatus(t, p2poolStatus(TRUE, current_hashrate(fromJson(ReadStats))))
    /\ ret' = [ret EXCEPT ![t] = "void"]
    /\ pc' = [pc EXCEPT ![t] = "idle"]
    /\ UNCHANGED <<started, m_p2poold, m_p2poolMutex, statsDir, binary, daemons,
                   call, arguments, launched, events, archive, taskVars, miner, life>>

GetStatusStep(t) ==
    \/ GetStarted(t)
    \/ GetStatusOff(t)
    \/ GetStatusRead(t)

\* ------------------------------------------------------------- the daemon
\* A daemon process ends, by the signal pkill sent or by itself.
DaemonExit ==
    /\ daemons > 0
    /\ daemons' = daemons - 1
    /\ UNCHANGED <<started, m_p2poold, m_p2poolMutex, statsDir, binary,
                   pc, call, arguments, launched, ret, events, archive, taskVars,
                   miner, status, life>>

\* A running daemon writes its statistics below the stats directory: the file
\* stats/local/miner holds one of StatsTexts.
DaemonWrite ==
    /\ daemons > 0
    /\ statsDir # "absent"
    /\ statsDir' = "data"
    /\ miner' \in StatsTexts
    /\ UNCHANGED <<started, m_p2poold, m_p2poolMutex, binary, daemons,
                   pc, call, arguments, launched, ret, events, archive, taskVars, status, life>>

\* -------------------------------------------------------------- download()
\* validHash of the Q_OS_LINUX branch, and the bodies a server may send: the
\* release archive or anything else.
validHash == "db33e4c1cd1a48008f1c52b0d0eb1a2d6a2bae6fe5191277c94dbbf5b098907a"
Bodies == {"p2pool-v4.9-linux-x64.tar.gz", "other"}

\* QCryptographicHash::hash(data, Sha256).toHex(): only the release archive
\* has the digest validHash.
Sha256Hex(body) ==
    IF body = "p2pool-v4.9-linux-x64.tar.gz" THEN validHash
    ELSE "e3b0c44298fc1c149afbf4c8996fb92427ae41e4649b934ca495991b7852b855"

\* The status codes download() tells apart, and any other.
Codes == {200, 302, 404}

\* The names of the header fields of a 302 response, in order.
FieldNames == {"Location", "Server"}
FieldLists == UNION {[1..n -> FieldNames] : n \in 0..MaxFields}

\* isInstalled(): QFileInfo(m_p2pool).isFile().
isInstalled == binary = "file"

Emit(k, signal) == signals' = [signals EXCEPT ![k] = Append(signals[k], signal)]
\* The lambda returns.
Return(k) == dpc' = [dpc EXCEPT ![k] = "done"]
Failure(reason) == <<"p2poolDownloadFailure", reason>>
Success == <<"p2poolDownloadSuccess">>
Did(k, op) == ops' = [ops EXCEPT ![k] = Append(ops[k], op)]

\* download(): m_scheduler.run(...) queues the lambda and returns.
Download(k) ==
    /\ life = "alive"
    /\ dpc[k] \in {"idle", "done"}
    /\ dpc' = [dpc EXCEPT ![k] = "d_get"]
    /\ success' = [success EXCEPT ![k] = FALSE]
    /\ response' = [response EXCEPT ![k] = NoResponse]
    /\ fields' = [fields EXCEPT ![k] = <<>>]
    /\ data' = [data EXCEPT ![k] = NoData]
    /\ ops' = [ops EXCEPT ![k] = <<>>]
    /\ signals' = [signals EXCEPT ![k] = <<>>]
    /\ UNCHANGED <<procVars, callVars, miner, status, life, binary, archive>>

\* http_client.invoke_get(...): the transport fails, or a response arrives.
InvokeGet(k, ok, code) ==
    /\ success' = [success EXCEPT ![k] = ok]
    /\ response' = [response EXCEPT ![k] =
                      IF ok THEN [m_response_code |-> code] ELSE NoResponse]
    /\ Did(k, "GET")

\* FirstGet with the `return` after the 404 signal left out.
FirstGet_NoReturn(k) ==
    /\ dpc[k] = "d_get"
    /\ \E ok \in BOOLEAN, code \in Codes :
        /\ InvokeGet(k, ok, code)
        /\ IF ok /\ code = 404
             THEN /\ Emit(k, Failure("BinaryNotAvailable"))
                  /\ dpc' = [dpc EXCEPT ![k] = "d_check"]
                  /\ UNCHANGED fields
           ELSE IF ok /\ code = 302
             THEN /\ \E f \in FieldLists : fields' = [fields EXCEPT ![k] = f]
                  /\ dpc' = [dpc EXCEPT ![k] = "d_loop"]
                  /\ UNCHANGED signals
           ELSE /\ dpc' = [dpc EXCEPT ![k] = "d_check"]
                /\ UNCHANGED <<fields, signals>>
    /\ UNCHANGED <<procVars, callVars, miner, status, life, binary, archive, data>>

\* The first GET and the tests of its response: 404, 302 (the header fields
\* are copied into `fields`), anything else.
FirstGet(k) ==
    /\ dpc[k] = "d_get"
    /\ \E ok \in BOOLEAN, code \in Codes :
        /\ InvokeGet(k, ok, code)
        /\ IF ok /\ code = 404
             THEN /\ Emit(k, Failure("BinaryNotAvailable"))
                  /\ Return(k)
                  /\ UNCHANGED fields
           ELSE IF ok /\ code = 302
             THEN /\ \E f \in FieldLists : fields' = [fields EXCEPT ![k] = f]
                  /\ dpc' = [dpc EXCEPT ![k] = "d_loop"]
                  /\ UNCHANGED signals
           ELSE /\ dpc' = [dpc EXCEPT ![k] = "d_check"]
                /\ UNCHANGED <<fields, signals>>
    /\ UNCHANGED <<procVars, callVars, miner, status, life, binary, archive, data>>

\* One round of the loop over `fields`: a field named Location re-targets
\* the client and issues a GET again.
Redirect(k) ==
    /\ dpc[k] = "d_loop"
    /\ fields[k] # <<>>
    /\ fields' = [fields EXCEPT ![k] = Tail(fields[k])]
    /\ IF Head(fields[k]) = "Location"
         THEN \E ok \in BOOLEAN, code \in Codes : InvokeGet(k, ok, code)
         ELSE UNCHANGED <<success, response, ops>>
    /\ UNCHANGED <<procVars, callVars, miner, status, life, binary, archive, dpc, data, signals>>

\* The loop over `fields` ends.
RedirectEnd(k) ==
    /\ dpc[k] = "d_loop"
    /\ fields[k] = <<>>
    /\ dpc' = [dpc EXCEPT ![k] = "d_check"]
    /\ UNCHANGED <<procVars, callVars, miner, status, life, binary, archive,
                   success, response, fields, data, ops, signals>>

\* Verify with the archive written before its hash is compared.
Verify_WriteFirst(k) ==
    /\ dpc[k] = "d_check"
    /\ IF ~success[k]
         THEN /\ Emit(k, Failure("ConnectionIssue"))
              /\ Return(k)
              /\ UNCHANGED <<data, archive, ops>>
         ELSE \E body \in Bodies :
              /\ data' = [data EXCEPT ![k] = body]
              /\ archive' = "file"
              /\ Did(k, "write")
              /\ IF Sha256Hex(body) # validHash
                   THEN /\ Emit(k, Failure("HashVerificationFailed"))
                        /\ Return(k)
                   ELSE /\ dpc' = [dpc EXCEPT ![k] = "d_write"]
                        /\ UNCHANGED signals
    /\ UNCHANGED <<procVars, callVars, miner, status, life, binary, success, response, fields>>

\* if (!success) ConnectionIssue; else the body is hashed and compared.
Verify(k) ==
    /\ dpc[k] = "d_check"
    /\ IF ~success[k]
         THEN /\ Emit(k, Failure("ConnectionIssue"))
              /\ Return(k)
              /\ UNCHANGED data
         ELSE \E body \in Bodies :
              /\ data' = [data EXCEPT ![k] = body]
              /\ IF Sha256Hex(body) # validHash
                   THEN /\ Emit(k, Failure("HashVerificationFailed"))
                        /\ Return(k)
                   ELSE /\ dpc' = [dpc EXCEPT ![k] = "d_write"]
                        /\ UNCHANGED signals
    /\ UNCHANGED <<procVars, callVars, miner, status, life, binary, archive, success, response, fields, ops>>

\* file.open(WriteOnly); file.write(data); file.close().
WriteArchive(k) ==
    /\ dpc[k] = "d_write"
    /\ archive' = "file"
    /\ Did(k, "write")
    /\ dpc' = [dpc EXCEPT ![k] = "d_extract"]
    /\ UNCHANGED <<procVars, callVars, miner, status, life, binary, success, response, fields, data, signals>>

\* QProcess::execute("tar", ...): tar may fail; it has nothing to unpack
\* when the archive is gone.
Extract(k) ==
    /\ dpc[k] = "d_extract"
    /\ \E tarOk \in BOOLEAN :
        binary' = IF tarOk /\ archive = "file" THEN "file" ELSE binary
    /\ Did(k, "extract")
    /\ dpc' = [dpc EXCEPT ![k] = "d_remove"]
    /\ UNCHANGED <<procVars, callVars, miner, status, life, archive, success, response, fields, data, signals>>

\* The lambda without file.remove().
RemoveArchive_Skip(k) ==
    /\ dpc[k] = "d_remove"
    /\ dpc' = [dpc EXCEPT ![k] = "d_installed"]
    /\ UNCHANGED <<procVars, callVars, miner, status, life, binary, archive,
                   success, response, fields, data, ops, signals>>

\* QFile::remove(fileName).
RemoveArchive(k) ==
    /\ dpc[k] = "d_remove"
    /\ archive' = "absent"
    /\ Did(k, "remove")
    /\ dpc' = [dpc EXCEPT ![k] = "d_installed"]
    /\ UNCHANGED <<procVars, callVars, miner, status, life, binary, success, response, fields, data, signals>>

\* Recheck with the result of isInstalled() ignored.
Recheck_AlwaysSuccess(k) ==
    /\ dpc[k] = "d_installed"
    /\ Did(k, IF isInstalled THEN "isInstalled=true" ELSE "isInstalled=false")
    /\ Emit(k, Success)
    /\ Return(k)
    /\ UNCHANGED <<procVars, callVars, miner, status, life, binary, archive, success, response, fields, data>>

\* if (isInstalled()) p2poolDownloadSuccess; else InstallationFailed.
Recheck(k) ==
    /\ dpc[k] = "d_installed"
    /\ Did(k, IF isInstalled THEN "isInstalled=true" ELSE "isInstalled=false")
    /\ Emit(k, IF isInstalled THEN Success ELSE Failure("InstallationFailed"))
    /\ Return(k)
    /\ UNCHANGED <<procVars, callVars, miner, status, life, binary, archive, success, response, fields, data>>

TaskStep(k) ==
    \/ FirstGet(k)
    \/ Redirect(k)
    \/ RedirectEnd(k)
    \/ Verify(k)
    \/ WriteArchive(k)
    \/ Extract(k)
    \/ RemoveArchive(k)
    \/ Recheck(k)

\* ------------------------------------------------------------ ~P2PoolManager
\* The tasks the pool has started and not finished.
Alive == {k \in Tasks : dpc[k] \notin {"idle", "done"}}

\* m_scheduler.shutdownWaitForFinished() returns when the pool has drained.
WaitForFinished == Alive = {}

\* The destructor is entered: the pool takes no further task.
DestructorCall ==
    /\ life = "alive"
    /\ life' = "stopping"
    /\ UNCHANGED <<procVars, callVars, taskVars, binary, archive, miner, status>>

\* The destructor without the call of shutdownWaitForFinished().
DestructorReturn_NoWait ==
    /\ life = "stopping"
    /\ life' = "destroyed"
    /\ UNCHANGED <<procVars, callVars, taskVars, binary, archive, miner, status>>

\* The destructor returns, once m_scheduler.shutdownWaitForFinished() has.
DestructorReturn ==
    /\ life = "stopping"
    /\ WaitForFinished
    /\ life' = "destroyed"
    /\ UNCHANGED <<procVars, callVars, taskVars, binary, archive, miner, status>>

\* ----------------------------------------------------------- specifications
\* No start() or exit() call is in progress.
Quiescent == \A t \in Threads : pc[t] = "idle"

\* The calls of start() that have yet to reach startDetached(), and the bound
\* of the specifications on the daemons: start() is called only while the
\* live daemons and those calls are fewer than MaxDaemons.
Launching == {t \in Threads : pc[t] \in {"s_exists", "s_remove", "s_mkdir",
                                          "s_lock", "s_reset", "s_launch"}}
CanLaunch == daemons + Cardinality(Launching) < MaxDaemons

\* The constructor in an install directory that holds no stats directory.
InitClean == Init /\ statsDir = "absent"

\* start() and exit() called from any thread at any time.  The download
\* tasks share only the file m_p2pool with these calls, which Init draws;
\* they run under SpecDownload.
Next ==
    \/ \E t \in Threads : \E inp \in FewInputs : CanLaunch /\ StartCall(t, inp)
    \/ \E t \in Threads : StartStep(t, BOOLEAN)
    \/ \E t \in Threads : ExitCall(t)
    \/ \E t \in Threads : ExitStep(t)
    \/ DaemonWrite
    \/ DaemonExit

Spec == Init /\ [][Next]_vars

\* As Spec, with flags that hold no --data-api and launches that all succeed,
\* from an install directory that holds no stats directory.
PlainInputs == {inp \in FewInputs : NeedsDataApi(FlagTokens(inp.flags))}

NextOk ==
    \/ \E t \in Threads : \E inp \in PlainInputs : CanLaunch /\ StartCall(t, inp)
    \/ \E t \in Threads : StartStep(t, {TRUE})
    \/ \E t \in Threads : ExitCall(t)
    \/ \E t \in Threads : ExitStep(t)
    \/ DaemonWrite
    \/ DaemonExit

SpecOk == InitClean /\ [][NextOk]_vars

\* One call at a time: a call begins only when none is in progress.  The
\* first call finds no stats directory.
NextSeq ==
    \/ \E t \in Threads : \E inp \in FewInputs : CanLaunch /\ Quiescent /\ StartCall(t, inp)
    \/ \E t \in Threads : StartStep(t, BOOLEAN)
    \/ \E t \in Threads : Quiescent /\ ExitCall(t)
    \/ \E t \in Threads : ExitStep(t)
    \/ DaemonWrite
    \/ DaemonExit

SpecSeq == InitClean /\ [][NextSeq]_vars

\* start() calls overlap one another, and exit() runs alone: no start()
\* begins while an exit() is in progress, no exit() while any call is.
NoExit == \A t \in Threads : pc[t] \notin {"e_kill", "e_clear", "e_rmdir"}

NextStarts ==
    \/ \E t \in Threads : \E inp \in FewInputs : CanLaunch /\ NoExit /\ StartCall(t, inp)
    \/ \E t \in Threads : StartStep(t, BOOLEAN)
    \/ \E t \in Threads : Quiescent /\ ExitCall(t)
    \/ \E t \in Threads : ExitStep(t)
    \/ DaemonWrite
    \/ DaemonExit

SpecStarts == Init /\ [][NextStarts]_vars

\* start(), exit() and getStatus(), one call at a time.
NextCalls ==
    \/ \E t \in Threads : \E inp \in FewInputs : CanLaunch /\ Quiescent /\ StartCall(t, inp)
    \/ \E t \in Threads : StartStep(t, BOOLEAN)
    \/ \E t \in Threads : Quiescent /\ ExitCall(t)
    \/ \E t \in Threads : ExitStep(t)
    \/ \E t \in Threads : Quiescent /\ GetStatusCall(t)
    \/ \E t \in Threads : GetStatusStep(t)
    \/ DaemonWrite
    \/ DaemonExit

SpecCalls == Init /\ [][NextCalls]_vars

\* getStatus() called from any thread at any time, while start() and exit()
\* are called from any thread at any time; every start() is given flags
\* without --data-api, so it makes the stats directory that getStatus() reads.
NextStatus ==
    \/ \E t \in Threads : \E inp \in PlainInputs : CanLaunch /\ StartCall(t, inp)
    \/ \E t \in Threads : StartStep(t, BOOLEAN)
    \/ \E t \in Threads : ExitCall(t)
    \/ \E t \in Threads : ExitStep(t)
    \/ \E t \in Threads : GetStatusCall(t)
    \/ \E t \in Threads : GetStatusStep(t)
    \/ DaemonWrite
    \/ DaemonExit

SpecStatus == Init /\ [][NextStatus]_vars

\* One start() call, on any flags, from a state earlier calls can leave.
DefaultProcess ==
    [program |-> m_p2pool,
     arguments |-> AddRest(AddDataApi(EntryArguments([flags |-> <<>>])),
                           [address |-> "abc", chain |-> "main", threads |-> "4"]),
     workingDirectory |-> m_p2poolPath]

\* started, the handle, the stats directory, the live daemons and the
\* statistics file: at construction, without and with what an earlier run
\* left, after a start() that launched, and after one that did not.
Snapshots ==
    { <<FALSE, NoProcess, "absent", 0, <<>> >>,
      <<FALSE, NoProcess, "data", 0, SpacedStats>>,
      <<TRUE, DefaultProcess, "data", 1, CompactStats>>,
      <<FALSE, DefaultProcess, "empty", 0, <<>> >> }

InitArgs ==
    /\ \E snap \in Snapshots :
        /\ started = snap[1]
        /\ m_p2poold = snap[2]
        /\ statsDir = snap[3]
        /\ daemons = snap[4]
        /\ miner = snap[5]
    /\ m_p2poolMutex = 0
    /\ binary \in {"absent", "file"}
    /\ \E inp \in StartInputs(FlagStrings) :
        /\ pc = [t \in Threads |-> IF t = 1 THEN EntryPc(inp) ELSE "idle"]
        /\ call = [t \in Threads |-> IF t = 1 THEN inp ELSE NoCall]
        /\ arguments = [t \in Threads |-> IF t = 1 THEN EntryArguments(inp) ELSE <<>>]
    /\ launched = [t \in Threads |-> FALSE]
    /\ ret = [t \in Threads |-> NoRet]
    /\ events = [t \in Threads |-> <<>>]
    /\ archive = "absent"
    /\ dpc = [k \in Tasks |-> "idle"]
    /\ success = [k \in Tasks |-> FALSE]
    /\ response = [k \in Tasks |-> NoResponse]
    /\ fields = [k \in Tasks |-> <<>>]
    /\ data = [k \in Tasks |-> NoData]
    /\ ops = [k \in Tasks |-> <<>>]
    /\ signals = [k \in Tasks |-> <<>>]
    /\ status = [t \in Threads |-> <<>>]
    /\ life = "alive"

NextArgs == \E t \in Threads : StartStep(t, BOOLEAN)

SpecArgs == InitArgs /\ [][NextArgs]_vars

\* The download tasks, overlapping.
NextDownload ==
    \/ \E k \in Tasks : Download(k)
    \/ \E k \in Tasks : TaskStep(k)

SpecDownload == Init /\ [][NextDownload]_vars

\* Overlapping downloads and the destructor, with servers that answer the
\* first request themselves: the requests of a task touch nothing but its
\* locals, and redirects run under SpecAttempt.  The file operations of the
\* tasks interleave with one another and with the requests.
DirectGet(k) == FirstGet(k) /\ dpc'[k] # "d_loop"

FileStep(k) ==
    \/ Verify(k)
    \/ WriteArchive(k)
    \/ Extract(k)
    \/ RemoveArchive(k)
    \/ Recheck(k)

\* The constructor in an install directory that holds no archive.
InitPool == Init /\ archive = "absent"

NextPool ==
    \/ \E k \in Tasks : Download(k)
    \/ \E k \in Tasks : DirectGet(k)
    \/ \E k \in Tasks : FileStep(k)
    \/ DestructorCall
    \/ DestructorReturn

SpecPool == InitPool /\ [][NextPool]_vars

\* One download at a time: download() is called again only when the task of
\* the call before has ended, and the pool runs it in the same place.
NoOther(k) == \A j \in Tasks \ {k} : dpc[j] = "idle"

NextAttempt ==
    \/ \E k \in Tasks : NoOther(k) /\ Download(k)
    \/ \E k \in Tasks : TaskStep(k)

SpecAttempt == Init /\ [][NextAttempt]_vars

\* The pool runs every queued task to its end.
FairAttempt == SpecAttempt /\ \A k \in Tasks : WF_vars(TaskStep(k))

\* ------------------------------------------------------------------ claims
\* A thread is inside start() with the stats directory recreated or the lock
\* taken, and has yet to return.
StartMid(t) ==
    \/ pc[t] \in {"s_reset", "s_launch", "s_assign", "s_ret"}
    \/ pc[t] = "s_lock" /\ contains(arguments[t], dirName)

\* A thread is inside exit(), past its test of `started`.
ExitMid(t) == pc[t] \in {"e_kill", "e_clear", "e_rmdir"}

\* C1: start() and exit() exclude each other: never is one thread between two
\* steps of start() while another is between two steps of exit().
C1_StartExitExclusive ==
    \A t \in Threads, u \in Threads : ~(StartMid(t) /\ ExitMid(u))

\* C2: with launches that succeed and flags without --data-api, whenever no
\* start() or exit() is in progress, started is true iff the stats directory
\* exists.
C2_StartedIffStatsDir ==
    Quiescent => (started <=> statsDir # "absent")

\* The arguments of the handle are those of a start() that took the default
\* --data-api block.
TookDefaultDataApi(args) ==
    \E i \in 1..Len(args) - 1 : args[i] = "--data-api" /\ args[i + 1] = dirName

\* C3 as stated: after any sequence of non-overlapping start() and exit()
\* calls, the stats directory exists iff started is true.
C3_StatsDirIffStarted ==
    Quiescent => (statsDir \in {"empty", "data"} <=> started = TRUE)

\* C3 as amended: after any sequence of non-overlapping calls, if started is
\* true and the latest start() was given no --data-api, the stats directory
\* exists.
C3_StartedHasStatsDir ==
    (Quiescent /\ started /\ TookDefaultDataApi(m_p2poold.arguments))
        => statsDir # "absent"

\* C3 witness: a start() without --data-api has launched and returned.
C3_Witness ==
    /\ Quiescent
    /\ started
    /\ TookDefaultDataApi(m_p2poold.arguments)
    /\ statsDir # "absent"
    /\ \E t \in Threads : ret[t] = "true"

\* The reasons of p2poolDownloadFailure, and what one attempt may emit.
FailureReasons ==
    {"BinaryNotAvailable", "ConnectionIssue", "HashVerificationFailed", "InstallationFailed"}
Completions == {<<Success>>} \cup {<<Failure(r)>> : r \in FailureReasons}

Running(k) == dpc[k] \notin {"idle", "done"}

\* C4: every download task ends, and has then emitted exactly one signal,
\* p2poolDownloadSuccess or p2poolDownloadFailure with one of the four
\* reasons; at no time has it emitted two.
C4_OneCompletion ==
    /\ [](\A k \in Tasks : signals[k] = <<>> \/ signals[k] \in Completions)
    /\ [](\A k \in Tasks : dpc[k] = "done" => signals[k] # <<>>)
    /\ \A k \in Tasks : Running(k) ~> (dpc[k] = "done")

\* C4 witness: a task has ended after a redirect with the one signal
\* p2poolDownloadSuccess.
C4_Witness ==
    \E k \in Tasks :
        /\ dpc[k] = "done"
        /\ signals[k] = <<Success>>
        /\ Len(SelectSeq(ops[k], LAMBDA op : op = "GET")) = 2

\* The operations of a task on the install directory.
FileOps(k) == SelectSeq(ops[k], LAMBDA op : op \in {"write", "extract", "remove"})

EarlyFailures ==
    {<<Failure("BinaryNotAvailable")>>, <<Failure("ConnectionIssue")>>,
     <<Failure("HashVerificationFailed")>>}

\* C5: an attempt that ends in BinaryNotAvailable, ConnectionIssue or
\* HashVerificationFailed has written, extracted and removed nothing, and
\* every change of the archive file or of the binary is made by a task whose
\* body has the expected hash.
C5_NoFileOpBeforeMatch ==
    /\ [](\A k \in Tasks : signals[k] \in EarlyFailures => FileOps(k) = <<>>)
    /\ [][(archive' # archive \/ binary' # binary) =>
            \E k \in Tasks : /\ dpc[k] \in {"d_write", "d_extract", "d_remove"}
                             /\ Sha256Hex(data[k]) = validHash]_vars

\* C5 witness: an attempt ended in HashVerificationFailed after a redirect,
\* with the install directory as it was.
C5_Witness ==
    \E k \in Tasks :
        /\ dpc[k] = "done"
        /\ signals[k] = <<Failure("HashVerificationFailed")>>
        /\ Len(ops[k]) = 2
        /\ archive = "absent"

\* C6: an attempt whose last response has status 404 ends in
\* BinaryNotAvailable, also when that response answers the GET issued after
\* a 302.
C6_NotFoundIsBinaryNotAvailable ==
    \A k \in Tasks :
        (dpc[k] = "done" /\ success[k] /\ response[k].m_response_code = 404)
            => signals[k] = <<Failure("BinaryNotAvailable")>>

\* C7: after a 302 and a redirected GET whose body has the expected hash,
\* the task writes the archive, extracts it, removes it and calls
\* isInstalled(), in this order, and emits p2poolDownloadSuccess if the
\* binary is a file at that call and InstallationFailed if not.
C7_RedirectedInstall ==
    \A k \in Tasks :
        (/\ dpc[k] = "done"
         /\ Len(ops[k]) >= 2 /\ ops[k][2] = "GET"
         /\ success[k]
         /\ Sha256Hex(data[k]) = validHash)
        => LET n == Len(ops[k])
               gets == SelectSeq(ops[k], LAMBDA op : op = "GET")
           IN  /\ n = Len(gets) + 4
               /\ SubSeq(ops[k], n - 3, n - 1) = <<"write", "extract", "remove">>
               /\ \/ ops[k][n] = "isInstalled=true" /\ signals[k] = <<Success>>
                  \/ /\ ops[k][n] = "isInstalled=false"
                     /\ signals[k] = <<Failure("InstallationFailed")>>

\* C7 witness: such an attempt ended in InstallationFailed.
C7_Witness ==
    \E k \in Tasks :
        /\ dpc[k] = "done"
        /\ ops[k] = <<"GET", "GET", "write", "extract", "remove", "isInstalled=false">>
        /\ signals[k] = <<Failure("InstallationFailed")>>

\* How often str occurs in list.
Count(list, str) == Cardinality({i \in 1..Len(list) : list[i] = str})

InCall(t) == call[t] # NoCall

\* The flags of the call hold none of the four flag names start() tests for.
NoDefaultFlag(t) ==
    \A f \in {"--local-api", "--data-api", "--start-mining", "--wallet"} :
        ~contains(FlagTokens(call[t].flags), f)

\* The argument list C8 states for such a call.
C8_Expected(inp) ==
    FlagTokens(inp.flags)
        \o <<"--local-api", "--data-api", dirName, "--start-mining", inp.threads>>
        \o (IF inp.chain = "mini" THEN <<"--mini">> ELSE <<>>)
        \o <<"--wallet", inp.address>>

\* C8: when start() is about to launch, on flags with none of --local-api,
\* --data-api, --start-mining, --wallet, the handle's arguments are the
\* tokens of flags, then --local-api, --data-api <statsDir>, --start-mining
\* <threadCount>, --mini iff chain is "mini", --wallet <walletAddress>, and
\* the stats directory exists and is empty.
C8_DefaultArguments ==
    \A t \in Threads :
        (pc[t] = "s_launch" /\ NoDefaultFlag(t))
            => /\ m_p2poold.arguments = C8_Expected(call[t])
               /\ statsDir = "empty"

\* C9: a start() whose flags hold the token --data-api never changes the
\* stats directory, and hands the process --data-api as often as flags
\* holds it.
C9_DataApiKept ==
    [][\A t \in Threads :
        (InCall(t) /\ contains(FlagTokens(call[t].flags), "--data-api"))
            => /\ statsDir' = statsDir
               /\ pc'[t] = "s_launch"
                    => Count(m_p2poold'.arguments, "--data-api")
                         = Count(FlagTokens(call[t].flags), "--data-api")]_vars

\* C9 witness: such a start(), given --data-api twice, has launched with the
\* stats directory and its contents still there.
C9_Witness ==
    \E t \in Threads :
        /\ pc[t] = "s_assign"
        /\ Count(FlagTokens(call[t].flags), "--data-api") = 2
        /\ Count(m_p2poold.arguments, "--data-api") = 2
        /\ statsDir = "data"

\* C10: when start() returns, with no exit() during the call: after a failed
\* launch started is false, p2poolStartFailure was emitted once and false is
\* returned; after a launch that succeeded started is true, nothing was
\* emitted and true is returned.
C10_LaunchOutcome ==
    [][\A t \in Threads :
        (pc[t] = "s_ret" /\ pc'[t] = "idle")
            => IF launched[t]
                 THEN started' /\ ret'[t] = "true" /\ events'[t] = <<>>
                 ELSE /\ ~started'
                      /\ ret'[t] = "false"
                      /\ events'[t] = <<"p2poolStartFailure">>]_vars

\* C10 witness: a start() whose launch failed has returned false.
C10_Witness ==
    \E t \in Threads :
        /\ pc[t] = "idle"
        /\ ~launched[t]
        /\ ret[t] = "false"
        /\ events[t] = <<"p2poolStartFailure">>
        /\ ~started
        /\ binary = "file"

\* A step in which exit() or getStatus() returns to its caller.
ExitReturns(t) ==
    \/ pc[t] = "e_rmdir" /\ pc'[t] = "idle"
    \/ /\ pc[t] = "idle" /\ pc'[t] = "idle"
       /\ ret'[t] = "void"
       /\ <<ret[t], events[t], status[t], launched[t]>>
            # <<ret'[t], events'[t], status'[t], launched'[t]>>

GetStatusReturns(t) == pc[t] \in {"g_status", "g_read"} /\ pc'[t] = "idle"

\* C11: with one call at a time, an exit() that found `started` true returns
\* with `started` false and the stats directory absent, and a getStatus()
\* that runs while `started` is false emits p2poolStatus(false, 0), whatever
\* the daemon wrote.
C11_StatusAfterExit ==
    [][\A t \in Threads :
        /\ (pc[t] = "e_rmdir" /\ pc'[t] = "idle")
              => (~started' /\ statsDir' = "absent" /\ miner' = <<>>)
        /\ (GetStatusReturns(t) /\ ~started)
              => status'[t] = <<p2poolStatus(FALSE, 0)>>]_vars

\* C11 witness: a start() created the stats directory, an exit() has removed
\* it and returned, and the getStatus() after it emitted (false, 0).
C11_Witness ==
    \E t \in Threads, u \in Threads :
        /\ Quiescent
        /\ status[t] = <<p2poolStatus(FALSE, 0)>>
        /\ ret[u] = "void" /\ status[u] = <<>>
        /\ contains(m_p2poold.arguments, dirName)
        /\ ~started
        /\ statsDir = "absent"
        /\ daemons = 0

\* C12: with one call at a time, a getStatus() that finds `started` true and
\* the stats file present emits (true, h), h the current_hashrate of the JSON
\* object that the whole text of the file is; with no stats file it emits
\* (true, 0).
C12_StatusFromFullText ==
    [][\A t \in Threads :
        /\ (pc[t] = "g_read" /\ pc'[t] = "idle" /\ started /\ statsDir = "data")
              => status'[t] = <<p2poolStatus(TRUE, current_hashrate(fromJson(miner)))>>
        /\ (pc[t] = "g_status" /\ pc'[t] = "idle" /\ started)
              => status'[t] = <<p2poolStatus(TRUE, 0)>>]_vars

\* C13: at most one daemon process launched by the Manager is alive.
C13_OneDaemon == daemons <= 1

\* A step in which exit() is entered.
ExitEntered(t) ==
    /\ pc[t] = "idle"
    /\ pc'[t] \in {"idle", "e_kill"}
    /\ <<pc[t], ret[t], events[t], status[t], launched[t]>>
         # <<pc'[t], ret'[t], events'[t], status'[t], launched'[t]>>

\* C14: an exit() called while `started` is false returns at once: no kill
\* runs, `started` stays false, and the stats directory, the statistics file
\* and the install directory are as they were.
C14_ExitNoOp ==
    [][\A t \in Threads :
        (ExitEntered(t) /\ ~started)
            => /\ pc'[t] = "idle"
               /\ ret'[t] = "void"
               /\ UNCHANGED <<started, m_p2poold, statsDir, miner, binary,
                              archive, daemons>>]_vars

\* C14 witness: an exit() has returned with `started` false, a daemon alive
\* and the stats directory in place.
C14_Witness ==
    \E t \in Threads :
        /\ Quiescent
        /\ ret[t] = "void" /\ status[t] = <<>>
        /\ ~started
        /\ statsDir # "absent"
        /\ daemons > 0

\* C15: the destructor returns only when no download task is running, and
\* once it has returned no task takes a step: no request, file operation or
\* signal follows.
C15_TeardownWaits ==
    /\ [](life = "destroyed" => Alive = {})
    /\ [][life = "destroyed" => UNCHANGED <<taskVars, archive, binary>>]_vars

\* C15 witness: the destructor has returned after every task slot ran a
\* download that wrote the archive.
C15_Witness ==
    /\ life = "destroyed"
    /\ \A k \in Tasks : dpc[k] = "done" /\ Count(ops[k], "write") = 1

\* The argument list of a start() whose decisions read the tokens of flags
\* alone.
C16_Expected(inp) ==
    LET f == FlagTokens(inp.flags) IN
    f \o (IF ~contains(f, "--local-api") THEN <<"--local-api">> ELSE <<>>)
      \o (IF ~contains(f, "--data-api") THEN <<"--data-api", dirName>> ELSE <<>>)
      \o (IF ~contains(f, "--start-mining") THEN <<"--start-mining", inp.threads>> ELSE <<>>)
      \o (IF inp.chain = "mini" THEN <<"--mini">> ELSE <<>>)
      \o (IF ~contains(f, "--wallet") THEN <<"--wallet", inp.address>> ELSE <<>>)

\* C16: which defaults start() appends depends on the tokens of flags only:
\* when it is about to launch, the handle's arguments are the tokens of
\* flags followed by each default whose name is not among those tokens,
\* whatever threadCount, walletAddress and chain are.
C16_DefaultsByFlagsOnly ==
    \A t \in Threads :
        pc[t] = "s_launch" => m_p2poold.arguments = C16_Expected(call[t])

\* C17: a download attempt issues at most two GET requests.
C17_AtMostTwoGets == \A k \in Tasks : Count(ops[k], "GET") <= 2

\* C18: with one call at a time, when exit() returns no daemon launched by an
\* earlier start() is running.
C18_NoDaemonAfterExit ==
    [][\A t \in Threads : ExitReturns(t) => daemons' = 0]_vars

\* C19: with getStatus(), start() and exit() called from any thread at any
\* time, a getStatus() call emits p2poolStatus once, when it returns and at
\* no other step, and an event whose running is false has hashrate 0.
C19_OneStatusEvent ==
    [][\A t \in Threads :
        /\ GetStatusReturns(t)
              => /\ Len(status'[t]) = 1
                 /\ ~status'[t][1].running => status'[t][1].hashrate = 0
        /\ ~GetStatusReturns(t) => status'[t] \in {status[t], <<>>}]_vars

\* C19 witness: a getStatus() that found the stats file and then `started`
\* true has emitted (true, 0) after an exit() removed the file under it.
C19_Witness ==
    \E t \in Threads, u \in Threads :
        /\ pc[t] = "idle"
        /\ status[t] = <<p2poolStatus(TRUE, 0)>>
        /\ pc[u] = "idle" /\ ret[u] = "void" /\ status[u] = <<>>
        /\ ~started
        /\ statsDir = "absent"
        /\ daemons = 0

\* C20: whenever no download task is in flight the archive file is absent.
C20_NoArchiveLeft == (\A k \in Tasks : ~Running(k)) => archive = "absent"

\* C20 witness: every task slot ran a download that wrote the archive and
\* removed it, and none is in flight.
C20_Witness ==
    /\ \A k \in Tasks :
        /\ dpc[k] = "done"
        /\ Count(ops[k], "write") = 1
        /\ Count(ops[k], "remove") = 1
    /\ archive = "absent"

====
